---- MODULE Spec2Model ----
(***************************************************************************)
(* Model of the personal finance ledger of src/src/App.jsx: the            *)
(* transaction and loan collections held in `db`, the handlers that mutate *)
(* them, and the derived views (bank balances, running balances, daily /   *)
(* monthly / yearly totals, installment schedules).                        *)
(*                                                                         *)
(* Conventions                                                             *)
(*  - money is counted in minor units (integers): both amount inputs are   *)
(*    <input type="number" step="0.01">, so every amount is a whole number *)
(*    of hundredths;                                                       *)
(*  - an ISO date string "YYYY-MM-DD" is the tuple <<y, m, d>>; a period   *)
(*    key "YYYY-MM" is <<y, m>> and "YYYY" is <<y>>; the strings are fixed *)
(*    width and zero padded, so string comparison is tuple comparison;     *)
(*  - `zone` is the time zone of the JavaScript runtime, at a fixed UTC    *)
(*    offset: "east" for an offset >= 0, "west" for an offset < 0.  A date *)
(*    string is parsed as midnight UTC, while getFullYear / getMonth /     *)
(*    setMonth work on local time: west of UTC the local calendar day of   *)
(*    that instant is the previous day;                                    *)
(*  - uid() returns a token it has never returned before: the tokens are   *)
(*    the numbers 1, 2, 3, ... in the order of the calls, and `nextId` is  *)
(*    the number of calls made so far;                                     *)
(*  - a transaction's description, category, person and notes and a loan's *)
(*    notes and optional dueDate are carried through unchanged by every    *)
(*    handler and are left out.                                            *)
(***************************************************************************)
EXTENDS Integers, Sequences, FiniteSets, TLC

VARIABLES db, form, nextId, now, zone

vars == <<db, form, nextId, now, zone>>

(***************************************************************************)
(* Bounds                                                                  *)
(***************************************************************************)
MaxTx == 2          \* transactions kept in the ledger
MaxLoans == 2       \* loans kept in the two loan collections together
MaxCount == 3       \* largest installment count entered in the loan form
MaxPrincipal == 7   \* largest of the small principals entered in the loan form
MaxNow == 1         \* days the clock advances
MaxId == 6          \* calls of uid()

(***************************************************************************)
(* Program constants                                                       *)
(***************************************************************************)
BANKS == <<"UBL", "JS Bank", "Meezan Bank", "ABL", "NayaPay", "Easypaisa", "JazzCash">>

BankSet == {BANKS[i] : i \in 1..Len(BANKS)}

LoanKinds == {"loansTaken", "loansGiven"}

Zones == {"east", "west"}

NoDate == <<>>      \* null

(***************************************************************************)
(* Calendar (the Date object)                                              *)
(***************************************************************************)
IsLeap(y) == (y % 4 = 0 /\ y % 100 # 0) \/ y % 400 = 0

DaysInMonth(y, m) ==
    IF m = 2 THEN (IF IsLeap(y) THEN 29 ELSE 28)
    ELSE IF m \in {4, 6, 9, 11} THEN 30 ELSE 31

NextDay(dt) ==
    IF dt[3] < DaysInMonth(dt[1], dt[2]) THEN <<dt[1], dt[2], dt[3] + 1>>
    ELSE IF dt[2] < 12 THEN <<dt[1], dt[2] + 1, 1>>
    ELSE <<dt[1] + 1, 1, 1>>

PrevDay(dt) ==
    IF dt[3] > 1 THEN <<dt[1], dt[2], dt[3] - 1>>
    ELSE IF dt[2] > 1 THEN <<dt[1], dt[2] - 1, DaysInMonth(dt[1], dt[2] - 1)>>
    ELSE <<dt[1] - 1, 12, 31>>

\* Lexicographic comparison of two fixed-width keys (dates or period keys).
KeyLess(a, b) ==
    \E i \in 1..Len(a) : a[i] < b[i] /\ \A j \in 1..(i - 1) : a[j] = b[j]

\* new Date("YYYY-MM-DD") read through the local-time getters: the local
\* calendar day of midnight UTC.
LocalDate(dt, z) == IF z = "west" THEN PrevDay(dt) ELSE dt

\* d.toISOString().slice(0,10) of a Date whose local calendar day is dt and
\* whose local time of day is that of midnight UTC.
UtcDate(dt, z) == IF z = "west" THEN NextDay(dt) ELSE dt

RECURSIVE DateAfter(_, _)
DateAfter(dt, n) == IF n = 0 THEN dt ELSE DateAfter(NextDay(dt), n - 1)

BaseDate == <<2024, 1, 31>>

todayISO == DateAfter(BaseDate, now)

monthKey(d, z) == LET dt == LocalDate(d, z) IN <<dt[1], dt[2]>>

yearKey(d, z) == LET dt == LocalDate(d, z) IN <<dt[1]>>

(***************************************************************************)
(* Sequence helpers (Array.prototype)                                      *)
(***************************************************************************)
Reverse(s) == [i \in 1..Len(s) |-> s[Len(s) + 1 - i]]

RECURSIVE SumSeq(_)
SumSeq(s) == IF s = <<>> THEN 0 ELSE s[1] + SumSeq(Tail(s))

Range(s) == {s[i] : i \in 1..Len(s)}

(***************************************************************************)
(* uid                                                                     *)
(***************************************************************************)
\* The token returned by the call of uid() that follows `issued` calls.
uid(issued) == issued + 1

\* The tokens of k successive calls of uid().
uids(issued, k) == [i \in 1..k |-> uid(issued + i - 1)]

LoanIds(loans) == {loans[i].id : i \in 1..Len(loans)}

TxIds == {db.transactions[i].id : i \in 1..Len(db.transactions)}

(***************************************************************************)
(* Derived views of the transactions                                       *)
(***************************************************************************)
\* Mutation of Sign: every transaction counted as a credit.
SignAlwaysCredit(t) == 1

Sign(t) == IF t.type = "income" THEN 1 ELSE -1

RECURSIVE bankSummariesFrom(_, _)
bankSummariesFrom(txs, sums) ==
    IF txs = <<>> THEN sums
    ELSE LET t == Head(txs) IN
         IF t.bank \notin DOMAIN sums THEN bankSummariesFrom(Tail(txs), sums)
         ELSE bankSummariesFrom(Tail(txs),
                                [sums EXCEPT ![t.bank] = @ + Sign(t) * t.amount])

bankSummaries(txs) == bankSummariesFrom(txs, [b \in BankSet |-> 0])

\* Mutation of MapAdd: the amount replaces the entry's sum instead of being
\* added to it.
MapAddOverwrite(map, key, t) ==
    LET m1 == IF \E i \in 1..Len(map) : map[i].key = key THEN map
              ELSE Append(map, [key |-> key, income |-> 0, expense |-> 0])
    IN [i \in 1..Len(m1) |->
          IF m1[i].key # key THEN m1[i]
          ELSE IF t.type = "income" THEN [m1[i] EXCEPT !.income = t.amount]
          ELSE [m1[i] EXCEPT !.expense = t.amount]]

\* map.has(key) / map.set(key, {income:0, expense:0}) / map.get(key)[type] += amount
\* on a Map kept as the sequence of its entries in insertion order.
MapAdd(map, key, t) ==
    LET m1 == IF \E i \in 1..Len(map) : map[i].key = key THEN map
              ELSE Append(map, [key |-> key, income |-> 0, expense |-> 0])
    IN [i \in 1..Len(m1) |->
          IF m1[i].key # key THEN m1[i]
          ELSE IF t.type = "income" THEN [m1[i] EXCEPT !.income = @ + t.amount]
          ELSE [m1[i] EXCEPT !.expense = @ + t.amount]]

\* The loop over the transactions; keys[i] is the key of txs[i].
RECURSIVE GroupBy(_, _, _)
GroupBy(txs, keys, map) ==
    IF txs = <<>> THEN map
    ELSE GroupBy(Tail(txs), Tail(keys), MapAdd(map, Head(keys), Head(txs)))

\* Array.prototype.sort on the entries, ascending by key.
RECURSIVE SortInsert(_, _)
SortInsert(sorted, e) ==
    IF sorted = <<>> THEN <<e>>
    ELSE IF KeyLess(e.key, Head(sorted).key) THEN <<e>> \o sorted
    ELSE <<Head(sorted)>> \o SortInsert(Tail(sorted), e)

RECURSIVE SortEntries(_)
SortEntries(map) ==
    IF map = <<>> THEN <<>>
    ELSE SortInsert(SortEntries(Tail(map)), Head(map))

\* The rows of a view; `key` is the row's date / month / year and `saving`
\* its income - expense (dailyTotals calls it net).
Rows(map) ==
    LET s == SortEntries(map) IN
    [i \in 1..Len(s) |-> [key |-> s[i].key, income |-> s[i].income,
                          expense |-> s[i].expense,
                          saving |-> s[i].income - s[i].expense]]

dailyTotals(txs) ==
    Rows(GroupBy(txs, [i \in 1..Len(txs) |-> txs[i].date], <<>>))

monthlySavings(txs, z) ==
    Rows(GroupBy(txs, [i \in 1..Len(txs) |-> monthKey(txs[i].date, z)], <<>>))

yearlySavings(txs, z) ==
    Rows(GroupBy(txs, [i \in 1..Len(txs) |-> yearKey(txs[i].date, z)], <<>>))

\* Mutation of totalsFrom: the transactions of banks outside the bank set are
\* skipped, as bankSummaries skips them.
RECURSIVE totalsFromInsideOnly(_, _, _)
totalsFromInsideOnly(txs, income, expense) ==
    IF txs = <<>> THEN [income |-> income, expense |-> expense, net |-> income - expense]
    ELSE IF Head(txs).bank \notin BankSet
         THEN totalsFromInsideOnly(Tail(txs), income, expense)
    ELSE IF Head(txs).type = "income"
         THEN totalsFromInsideOnly(Tail(txs), income + Head(txs).amount, expense)
         ELSE totalsFromInsideOnly(Tail(txs), income, expense + Head(txs).amount)

RECURSIVE totalsFrom(_, _, _)
totalsFrom(txs, income, expense) ==
    IF txs = <<>> THEN [income |-> income, expense |-> expense, net |-> income - expense]
    ELSE IF Head(txs).type = "income"
         THEN totalsFrom(Tail(txs), income + Head(txs).amount, expense)
         ELSE totalsFrom(Tail(txs), income, expense + Head(txs).amount)

totals(txs) == totalsFrom(txs, 0, 0)

\* BanksView: the rows of the active bank.
bankTx(txs, activeBank) ==
    Reverse(SelectSeq(txs, LAMBDA t : t.bank = activeBank))

\* rows.map(t => { bal += ...; return {...t, running: bal} }) over `list`.
RECURSIVE runningMap(_, _)
runningMap(list, bal) ==
    IF list = <<>> THEN <<>>
    ELSE LET t == Head(list)
             b == bal + Sign(t) * t.amount
         IN <<[tx |-> t, running |-> b]>> \o runningMap(Tail(list), b)

running(txs, activeBank) ==
    Reverse(runningMap(Reverse(bankTx(txs, activeBank)), 0))

(***************************************************************************)
(* Schedule generator                                                      *)
(***************************************************************************)
\* Math.round(num / den) for den > 0: the nearest integer, a half going up.
MathRound(num, den) == (2 * num + den) \div (2 * den)

IsHalf(num, den) == (2 * num) % den = 0 /\ ((2 * num) \div den) % 2 = 1

\* Math.round((amt / count) * 100) / 100 in minor units.  The quotient is a
\* double: when amt / count lies exactly on a half of a minor unit, the
\* product (amt / count) * 100 is either that half or the double just below
\* it (2.01 / 2 * 100 = 100.49999999999999), so the result is either
\* neighbour; `below` tells which.
PerInstallment(amt, count, below) ==
    IF IsHalf(amt, count) /\ below THEN MathRound(amt, count) - 1
    ELSE MathRound(amt, count)

\* const d = new Date(s); d.setMonth(d.getMonth() + k); d.toISOString().slice(0,10)
\* The month is set on the local calendar day, keeping the day of the month;
\* a day past the end of the target month runs over into the next month.
setMonth(start, k, z) ==
    LET l == LocalDate(start, z)
        mm == l[2] - 1 + k
        first == <<l[1] + (mm \div 12), (mm % 12) + 1, 1>>
    IN UtcDate(DateAfter(first, l[3] - 1), z)

\* Mutation of scheduleLoop: the loop stops one installment early.
scheduleLoopShort(start, count, per, ids, z) ==
    [i \in 1..(count - 1) |->
        [id |-> ids[i], dueDate |-> setMonth(start, i, z), amount |-> per,
         paid |-> FALSE, paidDate |-> NoDate]]

\* The list built by the loop: count installments of amount per, ids taken
\* from `ids`.
scheduleLoop(start, count, per, ids, z) ==
    [i \in 1..count |->
        [id |-> ids[i], dueDate |-> setMonth(start, i, z), amount |-> per,
         paid |-> FALSE, paidDate |-> NoDate]]

Amounts(list) == [i \in 1..Len(list) |-> list[i].amount]

\* Mutation of generateSchedule: the rounding residual is not added to the
\* last installment.
generateScheduleNoResidual(amt, start, count, ids, below, z) ==
    scheduleLoop(start, count, PerInstallment(amt, count, below), ids, z)

\* LoansView.generateSchedule, for count >= 1.
generateSchedule(amt, start, count, ids, below, z) ==
    LET per == PerInstallment(amt, count, below)
        list == scheduleLoop(start, count, per, ids, z)
        sum == SumSeq(Amounts(list))
    IN [list EXCEPT ![Len(list)].amount = MathRound(@ + (amt - sum), 1)]

\* App.generateInstallments, for count >= 1.
generateInstallments(amt, start, count, ids, below, z) ==
    LET per == PerInstallment(amt, count, below)
        list == scheduleLoop(start, count, per, ids, z)
        sum == SumSeq(Amounts(list))
        diff == MathRound(amt - sum, 1)
    IN [list EXCEPT ![Len(list)].amount = MathRound(@ + diff, 1)]

(***************************************************************************)
(* State                                                                   *)
(***************************************************************************)
\* A text field of a form is <<>> when empty and <<v>> when it holds v.
Number(field) == IF field = <<>> THEN 0 ELSE field[1]

EmptyDb == [transactions |-> <<>>, loansTaken |-> <<>>, loansGiven |-> <<>>]

\* LoansView's form after useState / after a submit.
BlankForm == [person |-> "", amount |-> <<>>, startDate |-> todayISO,
              installments |-> <<0>>]

Init ==
    /\ now = 0
    /\ zone \in Zones
    /\ nextId = 0
    /\ db = EmptyDb
    /\ form = BlankForm

(***************************************************************************)
(* Transactions                                                            *)
(***************************************************************************)
TxDates == {<<2023, 12, 31>>, <<2024, 1, 1>>, <<2024, 2, 1>>}

TxTypes == {"income", "expense"}

TxAmounts == {40}

TxBanks == {"UBL", "JS Bank", "HBL"}     \* "HBL" is not one of BANKS

addTransaction(tx) ==
    /\ Len(db.transactions) < MaxTx
    /\ nextId < MaxId
    /\ nextId' = nextId + 1
    /\ db' = [db EXCEPT !.transactions =
                <<[id |-> uid(nextId), date |-> tx.date, type |-> tx.type,
                   amount |-> tx.amount, bank |-> tx.bank]>> \o @]
    /\ UNCHANGED <<form, now, zone>>

deleteTransaction(id) ==
    /\ \E i \in 1..Len(db.transactions) : db.transactions[i].id = id
    /\ db' = [db EXCEPT !.transactions = SelectSeq(@, LAMBDA t : t.id # id)]
    /\ UNCHANGED <<form, nextId, now, zone>>

\* Transactions.submit on the form contents f (a field is <<>> when empty):
\* an empty amount or date is answered with an alert, anything else is
\* handed to addTransaction with the amount converted by Number.
submit(f) ==
    IF f.amount = <<>> \/ f.date = NoDate
    THEN UNCHANGED vars
    ELSE addTransaction([date |-> f.date, type |-> f.type,
                         amount |-> Number(f.amount), bank |-> f.bank])

clearAll ==
    /\ db' = EmptyDb
    /\ UNCHANGED <<form, nextId, now, zone>>

(***************************************************************************)
(* Loans                                                                   *)
(***************************************************************************)
\* The browser submits the loan form only when its fields are valid: the
\* installments field is <input type="number" min="0">.
FormValid(f) == IF f.installments = <<>> THEN TRUE ELSE f.installments[1] >= 0

\* Mutation of toggled: a paid installment has its amount cleared.
toggledSettled(s, today) ==
    [s EXCEPT !.paid = ~s.paid,
              !.paidDate = IF ~s.paid THEN today ELSE NoDate,
              !.amount = IF ~s.paid THEN 0 ELSE s.amount]

\* Mutation of toggled: the date of the toggle is recorded in both
\* directions.
toggledStamped(s, today) ==
    [s EXCEPT !.paid = ~s.paid, !.paidDate = today]

\* The installment toggled by toggleInstallment.
toggled(s, today) ==
    [s EXCEPT !.paid = ~s.paid,
              !.paidDate = IF ~s.paid THEN today ELSE NoDate]

\* Mutation of toggleSchedule: the installment id is not compared.
toggleScheduleAll(schedule, instId, today) ==
    [j \in 1..Len(schedule) |-> toggled(schedule[j], today)]

toggleSchedule(schedule, instId, today) ==
    [j \in 1..Len(schedule) |->
        IF schedule[j].id # instId THEN schedule[j]
        ELSE toggled(schedule[j], today)]

\* The collection after toggleInstallment(kind, loanId, instId).
toggleLoans(loans, loanId, instId, today) ==
    [i \in 1..Len(loans) |->
        IF loans[i].id # loanId THEN loans[i]
        ELSE [loans[i] EXCEPT !.schedule = toggleSchedule(@, instId, today)]]

LoanCount == Len(db.loansTaken) + Len(db.loansGiven)

\* createLoan, with the addLoan it calls and the form reset that ends it.
createLoan(kind, below) ==
    /\ FormValid(form)
    /\ form.person # "" /\ form.amount # <<>>
    /\ LoanCount < MaxLoans
    /\ LET count == Number(form.installments)
           calls == IF count > 0 THEN count ELSE 0
           ids == uids(nextId, calls)
           payload ==
               [person |-> form.person,
                amount |-> Number(form.amount),
                startDate |-> form.startDate,
                installments |-> IF count # 0 THEN count ELSE 0,
                schedule |-> IF count > 0
                             THEN generateSchedule(Number(form.amount), form.startDate,
                                                   count, ids, below, zone)
                             ELSE <<>>]
           loan == [id |-> uid(nextId + calls)] @@ payload
       IN /\ nextId + calls < MaxId
          /\ nextId' = nextId + calls + 1
          /\ db' = [db EXCEPT ![kind] = <<loan>> \o @]
    /\ form' = BlankForm
    /\ UNCHANGED <<now, zone>>

toggleInstallment(kind, loanId, instId) ==
    /\ \E i \in 1..Len(db[kind]) :
          /\ db[kind][i].id = loanId
          /\ \E j \in 1..Len(db[kind][i].schedule) : db[kind][i].schedule[j].id = instId
    /\ db' = [db EXCEPT ![kind] = toggleLoans(@, loanId, instId, todayISO)]
    /\ UNCHANGED <<form, nextId, now, zone>>

deleteLoan(kind, loanId) ==
    /\ \E i \in 1..Len(db[kind]) : db[kind][i].id = loanId
    /\ db' = [db EXCEPT ![kind] = SelectSeq(@, LAMBDA l : l.id # loanId)]
    /\ UNCHANGED <<form, nextId, now, zone>>

\* The user edits the loan form.
setForm(f) ==
    /\ form' = f
    /\ UNCHANGED <<db, nextId, now, zone>>

\* The clock moves to the next day.
Tick ==
    /\ now < MaxNow
    /\ now' = now + 1
    /\ UNCHANGED <<db, form, nextId, zone>>

(***************************************************************************)
(* Specifications                                                          *)
(***************************************************************************)
\* The ledger of transactions alone.
NextTx ==
    \/ \E d \in TxDates, ty \in TxTypes, a \in TxAmounts, b \in TxBanks :
          addTransaction([date |-> d, type |-> ty, amount |-> a, bank |-> b])
    \/ \E id \in TxIds : deleteTransaction(id)
    \/ clearAll

SpecTx == Init /\ [][NextTx]_vars

\* The loan form filled in with any principal, start date and count, then
\* submitted.
StartDays == {1, 15, 28, 29, 30, 31}

StartDates ==
    {<<y, m, d>> : y \in {2023, 2024}, m \in {1, 2, 3, 11, 12}, d \in StartDays}
    \cap {dt \in {2023, 2024} \X (1..12) \X (1..31) : dt[3] <= DaysInMonth(dt[1], dt[2])}

Principals == (1..MaxPrincipal) \cup {201, 100000}

SchedForms ==
    [person : {"Ali"}, amount : {<<p>> : p \in Principals},
     startDate : StartDates, installments : {<<n>> : n \in -1..MaxCount}]

InitSched ==
    /\ now = 0
    /\ zone \in Zones
    /\ nextId = 0
    /\ db = EmptyDb
    /\ form \in SchedForms

NextSched ==
    \/ \E kind \in LoanKinds, below \in BOOLEAN : createLoan(kind, below)
    \/ \E kind \in LoanKinds : \E id \in LoanIds(db[kind]) : deleteLoan(kind, id)
    \/ clearAll

SpecSched == InitSched /\ [][NextSched]_vars

\* The two loan collections: the form is edited and submitted, installments
\* are toggled and loans deleted while the clock advances.
LoanForms ==
    [person : {"Ali"}, amount : {<<100>>}, startDate : {<<2024, 1, 31>>},
     installments : {<<-1>>, <<0>>, <<2>>}]

NextLoan ==
    \/ \E f \in LoanForms : setForm(f)
    \/ \E kind \in LoanKinds, below \in BOOLEAN : createLoan(kind, below)
    \/ \E kind \in LoanKinds : \E l \in LoanIds(db[kind]), s \in 1..nextId :
          toggleInstallment(kind, l, s)
    \/ \E kind \in LoanKinds : \E id \in LoanIds(db[kind]) : deleteLoan(kind, id)
    \/ clearAll
    \/ Tick

SpecLoan == Init /\ [][NextLoan]_vars

\* The whole application.
LedgerForms ==
    [person : {"Ali"}, amount : {<<100>>}, startDate : {<<2024, 1, 31>>},
     installments : {<<2>>}]

LedgerTx == [date |-> <<2024, 2, 1>>, type |-> "expense", amount |-> 40, bank |-> "UBL"]

Next ==
    \/ addTransaction(LedgerTx)
    \/ \E id \in TxIds : deleteTransaction(id)
    \/ \E f \in LedgerForms : setForm(f)
    \/ \E kind \in LoanKinds, below \in BOOLEAN : createLoan(kind, below)
    \/ \E kind \in LoanKinds : \E l \in LoanIds(db[kind]), s \in 1..nextId :
          toggleInstallment(kind, l, s)
    \/ \E kind \in LoanKinds : \E id \in LoanIds(db[kind]) : deleteLoan(kind, id)
    \/ clearAll
    \/ Tick

Spec == Init /\ [][Next]_vars

\* The period views: transactions of both types and of two amounts, added
\* and deleted.
ViewAmounts == {15, 40}

NextViews ==
    \/ \E d \in TxDates, ty \in TxTypes, a \in ViewAmounts :
          addTransaction([date |-> d, type |-> ty, amount |-> a, bank |-> "UBL"])
    \/ \E id \in TxIds : deleteTransaction(id)

SpecViews == Init /\ [][NextViews]_vars

\* Data entry: what the two forms let through to the ledger.
EntryTxForms ==
    [date : {NoDate, <<2024, 1, 1>>}, type : {"expense"},
     amount : {<<>>, <<-40>>, <<40>>}, bank : {"UBL"}]

EntryLoanForms ==
    [person : {"Ali"}, amount : {<<100>>}, startDate : {<<2024, 1, 31>>},
     installments : {<<>>, <<-1>>, <<0>>, <<2>>}]

NextEntry ==
    \/ \E f \in EntryTxForms : submit(f)
    \/ \E id \in TxIds : deleteTransaction(id)
    \/ \E f \in EntryLoanForms : setForm(f)
    \/ \E kind \in LoanKinds, below \in BOOLEAN : createLoan(kind, below)
    \/ \E kind \in LoanKinds : \E id \in LoanIds(db[kind]) : deleteLoan(kind, id)
    \/ clearAll

SpecEntry == Init /\ [][NextEntry]_vars

(***************************************************************************)
(* Properties                                                              *)
(***************************************************************************)
\* Every loan of the ledger, of either collection.
AllLoans == Range(db.loansTaken) \cup Range(db.loansGiven)

Installments(l) == Range(l.schedule)

\* C1 - Sum conservation: for a positive principal and an installment count
\* n >= 1, the amounts of the n installments of generateSchedule (and of
\* generateInstallments) add up to exactly the principal.
C1_SumConservation ==
    \A l \in AllLoans :
        (l.amount > 0 /\ l.installments >= 1) =>
            /\ SumSeq(Amounts(l.schedule)) = l.amount
            /\ \A below \in BOOLEAN :
                  SumSeq(Amounts(generateInstallments(l.amount, l.startDate,
                      l.installments, uids(0, l.installments), below, zone))) = l.amount

\* A principal that does not divide evenly: the last installment carries the
\* residual.
C1_Witness ==
    \E l \in AllLoans :
        /\ l.amount = 100000 /\ l.installments = 3
        /\ Amounts(l.schedule) = <<33333, 33333, 33334>>

\* C2 - Running balance consistency: for every bank of the bank set that has
\* transactions, the running balance of the chronologically last (most
\* recently inserted) row of the bank's running-balance sequence equals
\* bankSummaries[bank].
C2_RunningBalanceConsistency ==
    \A b \in BankSet :
        LET rows == running(db.transactions, b) IN
        rows # <<>> => rows[Len(rows)].running = bankSummaries(db.transactions)[b]

\* C3 - Every installment of generateSchedule for a positive principal and
\* n >= 1 has a strictly positive amount.
C3_PositiveAmounts ==
    \A l \in AllLoans :
        (l.amount > 0 /\ l.installments >= 1) =>
            \A s \in Installments(l) : s.amount > 0

\* C4 - Balance conservation: when every transaction's bank is in the bank
\* set, the bank balances add up to totals.net.
C4_BalanceConservation ==
    (\A t \in Range(db.transactions) : t.bank \in BankSet) =>
        SumSeq([i \in 1..Len(BANKS) |-> bankSummaries(db.transactions)[BANKS[i]]])
            = totals(db.transactions).net

\* An income and an expense booked on two different banks of the set.
C4_Witness ==
    /\ \A t \in Range(db.transactions) : t.bank \in BankSet
    /\ \E t, u \in Range(db.transactions) :
          t.bank # u.bank /\ t.type = "income" /\ u.type = "expense"

\* The calendar month of a date, counted from year 0.
MonthIndex(dt) == dt[1] * 12 + dt[2]

\* C5 - Due-date monotonicity: the due dates are strictly increasing, the
\* i-th due date lies in the i-th calendar month after the start date, on
\* the start date's day of the month when that month has such a day, so
\* that consecutive due dates fall in consecutive calendar months.
C5_DueDateMonotonicity ==
    \A l \in AllLoans :
        \A i \in 1..Len(l.schedule) :
            LET due == l.schedule[i].dueDate IN
            /\ MonthIndex(due) = MonthIndex(l.startDate) + i
            /\ l.startDate[3] <= DaysInMonth(due[1], due[2]) => due[3] = l.startDate[3]
            /\ i > 1 => KeyLess(l.schedule[i - 1].dueDate, due)

\* C6 - Schedule length: every stored loan has as many installments as its
\* installment count, none when the count is 0.
C6_ScheduleLength ==
    \A l \in AllLoans : Len(l.schedule) = l.installments

\* A loan without installments next to a loan with several, one of them paid.
C6_Witness ==
    \E l, m \in AllLoans :
        /\ l.installments = 0 /\ l.schedule = <<>>
        /\ m.installments >= 2 /\ Len(m.schedule) = m.installments
        /\ \E s \in Installments(m) : s.paid

\* The dates the clock can still show.
LaterDates == {DateAfter(BaseDate, n) : n \in now..MaxNow}

\* A step that flips the paid flag of an installment sets its paidDate (the
\* current date when it becomes paid, null when it becomes unpaid) and
\* changes nothing else in the ledger.
C7_Step ==
    \A kind \in LoanKinds :
        \A i \in 1..Len(db[kind]) :
            \A j \in 1..Len(db[kind][i].schedule) :
                LET s == db[kind][i].schedule[j] IN
                (/\ i <= Len(db'[kind])
                 /\ db'[kind][i].id = db[kind][i].id
                 /\ j <= Len(db'[kind][i].schedule)
                 /\ db'[kind][i].schedule[j].paid # s.paid)
                => db' = [db EXCEPT ![kind][i].schedule[j] =
                            [s EXCEPT !.paid = ~s.paid,
                                      !.paidDate = IF ~s.paid THEN todayISO ELSE NoDate]]

\* Two toggles of the same installment, the first now and the second on any
\* later date d: an unpaid installment is back as it was; a paid one is paid
\* again, with paidDate d.
C7_RoundTrip ==
    \A kind \in LoanKinds :
        \A i \in 1..Len(db[kind]) :
            \A j \in 1..Len(db[kind][i].schedule) :
                \A d \in LaterDates :
                    LET l == db[kind][i]
                        s == l.schedule[j]
                        once == toggleLoans(db[kind], l.id, s.id, todayISO)
                        twice == toggleLoans(once, l.id, s.id, d)
                    IN IF s.paid
                       THEN twice = [db[kind] EXCEPT ![i].schedule[j].paidDate = d]
                       ELSE twice = db[kind]

\* C7 (amended) - toggleInstallment on an unpaid installment sets paid=true
\* and paidDate to the current date, on a paid one paid=false and
\* paidDate=null, and changes no other installment of any loan; two
\* consecutive toggles of an unpaid installment restore the ledger, two
\* consecutive toggles of a paid installment leave it paid with paidDate the
\* date of the second toggle.
C7_Toggle == [][C7_Step /\ C7_RoundTrip']_vars

\* C7 as stated - two consecutive toggles of the same installment restore
\* the original ledger state.
C7_TwoTogglesRestore ==
    \A kind \in LoanKinds :
        \A i \in 1..Len(db[kind]) :
            \A j \in 1..Len(db[kind][i].schedule) :
                LET l == db[kind][i]
                    s == l.schedule[j]
                    once == toggleLoans(db[kind], l.id, s.id, todayISO)
                IN toggleLoans(once, l.id, s.id, todayISO) = db[kind]

\* Two loans in one collection, an installment paid today next to an unpaid
\* one of the same schedule.
C7_Witness ==
    \E kind \in LoanKinds :
        /\ Len(db[kind]) = 2
        /\ \E l \in Range(db[kind]) : \E s, u \in Installments(l) :
              s.paid /\ s.paidDate = todayISO /\ ~u.paid /\ u.paidDate = NoDate

Frozen(l) ==
    [id |-> l.id, amount |-> l.amount, startDate |-> l.startDate,
     installments |-> l.installments,
     schedule |-> [j \in 1..Len(l.schedule) |->
                     [id |-> l.schedule[j].id, dueDate |-> l.schedule[j].dueDate,
                      amount |-> l.schedule[j].amount]]]

C8_SumHolds ==
    \A l \in AllLoans : l.installments >= 1 => SumSeq(Amounts(l.schedule)) = l.amount

\* C8 - Schedule immutability: a step leaves every loan that it keeps with
\* the same principal, installment count and installments (number, order,
\* ids, due dates, amounts), in the same collection; the amounts of every
\* schedule add up to the principal afterwards.
C8_ScheduleImmutable ==
    [][/\ \A kind \in LoanKinds : \A l \in Range(db[kind]) :
             \A m \in Range(db'.loansTaken) \cup Range(db'.loansGiven) :
                 m.id = l.id => (m \in Range(db'[kind]) /\ Frozen(m) = Frozen(l))
       /\ C8_SumHolds']_vars

\* A loan with a paid and an unpaid installment, on a later day, with a
\* transaction in the ledger.
C8_Witness ==
    /\ now > 0
    /\ db.transactions # <<>>
    /\ \E l \in AllLoans : \E s, u \in Installments(l) :
          s.paid /\ ~u.paid /\ l.installments >= 1

\* The amounts of the transactions of one type, added up.
SumOf(txs, type) ==
    LET sel == SelectSeq(txs, LAMBDA t : t.type = type)
    IN SumSeq([i \in 1..Len(sel) |-> sel[i].amount])

Column(rows, type) ==
    SumSeq([i \in 1..Len(rows) |->
              IF type = "income" THEN rows[i].income ELSE rows[i].expense])

PeriodRows(rows, txs, prefix) ==
    LET keys == Range(prefix)
        of(k, type) ==
            SumSeq([i \in 1..Len(txs) |->
                      IF prefix[i] = k /\ txs[i].type = type THEN txs[i].amount ELSE 0])
    IN /\ Len(rows) = Cardinality(keys)
       /\ {rows[i].key : i \in 1..Len(rows)} = keys
       /\ \A i \in 1..Len(rows) :
             /\ rows[i].income = of(rows[i].key, "income")
             /\ rows[i].expense = of(rows[i].key, "expense")
             /\ rows[i].saving = rows[i].income - rows[i].expense
       /\ \A i \in 1..(Len(rows) - 1) : KeyLess(rows[i].key, rows[i + 1].key)

\* C10 - monthlySavings (yearlySavings) has exactly one row per YYYY-MM
\* (YYYY) prefix of the transactions' date strings, with the sums of the
\* period's income and expense, saving = income - expense, in strictly
\* ascending order of the period key.
C10_PeriodTotals ==
    LET txs == db.transactions IN
    /\ PeriodRows(monthlySavings(txs, zone), txs,
                  [i \in 1..Len(txs) |-> <<txs[i].date[1], txs[i].date[2]>>])
    /\ PeriodRows(yearlySavings(txs, zone), txs,
                  [i \in 1..Len(txs) |-> <<txs[i].date[1]>>])

\* A step leaves no negative transaction amount and no negative installment
\* count in the ledger, and a loan it adds carries the count that stands in
\* the form's installments field.
C11_Step ==
    /\ \A t \in Range(db'.transactions) : t.amount >= 0
    /\ \A kind \in LoanKinds : \A l \in Range(db'[kind]) :
          /\ l.installments >= 0
          /\ l.id \notin LoanIds(db[kind]) => form.installments = <<l.installments>>

\* C11 - Fail fast: a transaction submitted with a negative amount, or a loan
\* submitted with a negative or non-numeric installment count, is rejected
\* and leaves the ledger unchanged; every stored transaction amount is
\* non-negative and every stored installment count is a non-negative integer
\* that was entered in the form, never a default of zero.
C11_FailFast == [][C11_Step]_vars

\* C12 - Running-balance sequence: for every bank, the rows are the bank's
\* transactions oldest to newest by insertion order, and the running balance
\* of a row is the signed sum (+amount for income, -amount for expense) of
\* that transaction and of the bank's transactions inserted before it;
\* transactions of other banks contribute nothing.
C12_RunningSequence ==
    \A b \in BankSet :
        LET rows == running(db.transactions, b)
            \* db.transactions is newest first
            oldestFirst == Reverse(SelectSeq(db.transactions, LAMBDA t : t.bank = b))
        IN /\ Len(rows) = Len(oldestFirst)
           /\ \A i \in 1..Len(rows) :
                 /\ rows[i].tx = oldestFirst[i]
                 /\ rows[i].running =
                        SumSeq([k \in 1..i |-> Sign(oldestFirst[k]) * oldestFirst[k].amount])

\* The three period views of the ledger.
Views ==
    {dailyTotals(db.transactions), monthlySavings(db.transactions, zone),
     yearlySavings(db.transactions, zone)}

\* C13 - Cross-view conservation: with transactions of type income or
\* expense, the net of the daily rows, the saving of the monthly rows and the
\* saving of the yearly rows each add up to totals.net, and the income and
\* expense columns of each view add up to totals.income and totals.expense.
C13_CrossView ==
    \A rows \in Views :
        /\ SumSeq([i \in 1..Len(rows) |-> rows[i].saving]) = totals(db.transactions).net
        /\ Column(rows, "income") = totals(db.transactions).income
        /\ Column(rows, "expense") = totals(db.transactions).expense

\* After a deletion: an income and a smaller expense of the same month but
\* of different days, so that the daily view has two rows, the monthly view
\* one row summing both, and the net is not zero.
C13_Witness ==
    /\ nextId > Len(db.transactions)
    /\ totals(db.transactions).net > 0
    /\ totals(db.transactions).expense > 0
    /\ Len(dailyTotals(db.transactions)) = 2
    /\ Len(monthlySavings(db.transactions, zone)) = 1

\* Every installment of the ledger.
AllInstallments == UNION {Installments(l) : l \in AllLoans}

C14_Consistent == \A s \in AllInstallments : s.paid <=> s.paidDate # NoDate

\* C14 - Paid-flag consistency: before and after every step, every
\* installment of either loan collection is paid exactly when its paidDate
\* is not null, and the installments a step adds to the ledger are unpaid
\* with a null paidDate.
C14_PaidFlag ==
    [][/\ C14_Consistent
       /\ C14_Consistent'
       /\ \A s \in AllInstallments' :
             s.id \notin {u.id : u \in AllInstallments} =>
                 ~s.paid /\ s.paidDate = NoDate]_vars

\* A loan in each collection: an installment paid on an earlier day next to
\* an unpaid one, and an installment of the other loan paid today.
C14_Witness ==
    /\ db.loansTaken # <<>> /\ db.loansGiven # <<>>
    /\ \E l \in AllLoans : \E s, u \in Installments(l) :
          /\ s.paid /\ s.paidDate # NoDate /\ s.paidDate # todayISO
          /\ ~u.paid /\ u.paidDate = NoDate
          /\ \E m \in AllLoans \ {l} : \E v \in Installments(m) :
                v.paid /\ v.paidDate = todayISO

====
